---- MODULE Spec2Model ----
(***************************************************************************)
(* Span decoding and span-level scoring of run_ner.py.                     *)
(*                                                                         *)
(*   Spec      find_all_tags as the loop it is: one step per iteration of  *)
(*             the outer scan and of the Inside-tag lookahead.             *)
(*   SpecEval  compute_f1 (precision, recall, F1) over predictions, gold   *)
(*             labels and a mask.                                          *)
(*   SpecTrain the evaluation step of the training loop of main().         *)
(*                                                                         *)
(* Arrays are functions over 0..N-1, as the code indexes them.  A Python   *)
(* exception is a terminal value of the program counter.  Scores are exact *)
(* fractions [num, den]; the floats of the code are not modelled further.  *)
(***************************************************************************)
EXTENDS Integers, Sequences, FiniteSets, TLC

----------------------------------------------------------------------------
(* Bounds *)

MaxLen == 3
EvalLen == 3
MaxBatches == 10
NumEpochs == 2

----------------------------------------------------------------------------
(* Tag vocabulary *)

B_PER == 0
I_PER == 1
B_ORG == 2
I_ORG == 3
B_LOC == 4
I_LOC == 5
O == 6

TagVocabulary == {B_PER, I_PER, B_ORG, I_ORG, B_LOC, I_LOC, O}

Categories == {"per", "loc", "org"}

BeginTag(c) == CASE c = "per" -> B_PER [] c = "org" -> B_ORG [] c = "loc" -> B_LOC

InsideTag(c) == CASE c = "per" -> I_PER [] c = "org" -> I_ORG [] c = "loc" -> I_LOC

EmptyTags == [per |-> <<>>, loc |-> <<>>, org |-> <<>>]

Arr(s) == [i \in 0..(Len(s) - 1) |-> s[i + 1]]

ArrLen(a) == Cardinality(DOMAIN a)

Arrays(n, S) == [0..(n - 1) -> S]

----------------------------------------------------------------------------
VARIABLES predictions, dev_labels, dev_mask,
          idx, seek, length, pos, cat, tags, pc,
          pre, rec, p, r, f1, fpc,
          max_score, score, epoch, step, nbatches, model_file, eval_results,
          save_model, evals, saves, writes, best, tpc

scanVars == <<idx, seek, length, pos, cat, tags, pc>>
evalVars == <<pre, rec, p, r, f1, fpc>>
trainVars == <<max_score, score, epoch, step, nbatches, model_file, eval_results,
               save_model, evals, saves, writes, best, tpc>>
vars == <<predictions, dev_labels, dev_mask, scanVars, evalVars, trainVars>>

----------------------------------------------------------------------------
(* find_all_tags *)

SkipsUnmasked(T, M, i) == T[i] = O

Skips(T, M, i) == M[i] = 0 \/ T[i] = O

ContinuesMasked(T, s, itag) == T[s] = itag /\ dev_mask[s] = 1

Continues(T, s, itag) == T[s] = itag

IsBegin(t) == t \in {B_PER, B_ORG, B_LOC}

CatOf(t) == CASE t = B_PER -> "per" [] t = B_ORG -> "org" [] t = B_LOC -> "loc"

ScanIdle ==
    /\ idx = 0 /\ seek = 0 /\ length = 0 /\ pos = 0
    /\ cat = "none" /\ tags = EmptyTags /\ pc = "idle"

ScanStart ==
    /\ idx = 0 /\ seek = 0 /\ length = 0 /\ pos = 0
    /\ cat = "none" /\ tags = EmptyTags /\ pc = "scan"

Skip ==
    /\ pc = "scan"
    /\ idx < ArrLen(predictions)
    /\ Skips(predictions, dev_mask, idx)
    /\ idx' = idx + 1
    /\ UNCHANGED <<seek, length, pos, cat, tags, pc>>

BeginSpan(c) ==
    /\ pc = "scan"
    /\ idx < ArrLen(predictions)
    /\ ~Skips(predictions, dev_mask, idx)
    /\ predictions[idx] = BeginTag(c)
    /\ pos' = idx
    /\ length' = 0
    /\ seek' = idx + 1
    /\ cat' = c
    /\ pc' = "seek"
    /\ UNCHANGED <<idx, tags>>

BeginPer == BeginSpan("per")

BeginOrg == BeginSpan("org")

BeginLoc == BeginSpan("loc")

SeekStep ==
    /\ pc = "seek"
    /\ seek \in DOMAIN predictions
    /\ Continues(predictions, seek, InsideTag(cat))
    /\ length' = length + 1
    /\ seek' = seek + 1
    /\ UNCHANGED <<idx, pos, cat, tags, pc>>

SeekIndexError ==
    /\ pc = "seek"
    /\ seek \notin DOMAIN predictions
    /\ pc' = "IndexError"
    /\ UNCHANGED <<idx, seek, length, pos, cat, tags>>

EmitSpanShort ==
    /\ pc = "seek"
    /\ seek \in DOMAIN predictions
    /\ ~Continues(predictions, seek, InsideTag(cat))
    /\ idx' = idx + length
    /\ tags' = [tags EXCEPT ![cat] = Append(@, <<pos, length>>)]
    /\ pc' = "scan"
    /\ UNCHANGED <<seek, length, pos, cat>>

EmitSpan ==
    /\ pc = "seek"
    /\ seek \in DOMAIN predictions
    /\ ~Continues(predictions, seek, InsideTag(cat))
    /\ idx' = idx + (length + 1)
    /\ tags' = [tags EXCEPT ![cat] = Append(@, <<pos, length>>)]
    /\ pc' = "scan"
    /\ UNCHANGED <<seek, length, pos, cat>>

Orphan ==
    /\ pc = "scan"
    /\ idx < ArrLen(predictions)
    /\ ~Skips(predictions, dev_mask, idx)
    /\ ~IsBegin(predictions[idx])
    /\ idx' = idx + 1
    /\ UNCHANGED <<seek, length, pos, cat, tags, pc>>

Return ==
    /\ pc = "scan"
    /\ ~(idx < ArrLen(predictions))
    /\ pc' = "done"
    /\ UNCHANGED <<idx, seek, length, pos, cat, tags>>

(* The same function as a value: what a call returns, or that it raised. *)

RECURSIVE LookAhead(_, _, _, _)
LookAhead(T, itag, s, len) ==
    IF s \notin DOMAIN T THEN [raised |-> TRUE, length |-> len]
    ELSE IF Continues(T, s, itag) THEN LookAhead(T, itag, s + 1, len + 1)
    ELSE [raised |-> FALSE, length |-> len]

RECURSIVE ScanFrom(_, _, _, _)
ScanFrom(T, M, i, acc) ==
    IF ~(i < ArrLen(T)) THEN [raised |-> FALSE, tags |-> acc]
    ELSE IF Skips(T, M, i) THEN ScanFrom(T, M, i + 1, acc)
    ELSE IF IsBegin(T[i]) THEN
        LET c == CatOf(T[i])
            la == LookAhead(T, InsideTag(c), i + 1, 0)
        IN  IF la.raised THEN [raised |-> TRUE, tags |-> acc]
            ELSE ScanFrom(T, M, i + (la.length + 1),
                          [acc EXCEPT ![c] = Append(@, <<i, la.length>>)])
    ELSE ScanFrom(T, M, i + 1, acc)

find_all_tags(T, M) == ScanFrom(T, M, 0, EmptyTags)

----------------------------------------------------------------------------
(* precision, recall, compute_f1 *)

EvalTags == {B_PER, I_PER, B_ORG, O}

Zero == [num |-> 0, den |-> 1]

DivByZero == [num |-> 0, den |-> 0]

Div(n, d) == IF d = 0 THEN DivByZero ELSE [num |-> n, den |-> d]

RECURSIVE Sum(_)
Sum(s) == IF Len(s) = 0 THEN 0 ELSE Head(s) + Sum(Tail(s))

SpansInOrder(tg) == tg.per \o tg.loc \o tg.org

SliceEq(P, G, a, b) ==
    \A i \in a..(b - 1) : (i \in DOMAIN P /\ i \in DOMAIN G) => P[i] = G[i]

Outcomes(P, G, spans) ==
    [k \in 1..Len(spans) |->
        IF SliceEq(P, G, spans[k][1], spans[k][1] + spans[k][2] + 1) THEN 1 ELSE 0]

RatioUnguarded(bits) == Div(Sum(bits), Len(bits))

Ratio(bits) == IF Len(bits) = 0 THEN Zero ELSE Div(Sum(bits), Len(bits))

precision(P, G, M) ==
    LET result == find_all_tags(P, M)
        bits == Outcomes(P, G, SpansInOrder(result.tags))
    IN  IF result.raised THEN [raised |-> TRUE, bits |-> <<>>, value |-> Zero]
        ELSE [raised |-> FALSE, bits |-> bits, value |-> Ratio(bits)]

recall(P, G, M) ==
    LET result == find_all_tags(G, M)
        bits == Outcomes(P, G, SpansInOrder(result.tags))
    IN  IF result.raised THEN [raised |-> TRUE, bits |-> <<>>, value |-> Zero]
        ELSE [raised |-> FALSE, bits |-> bits, value |-> Ratio(bits)]

IsZero(x) == x.num = 0

HarmonicMeanNoParens(x, y) ==
    IF x.num = 0 THEN DivByZero ELSE [num |-> 3 * y.num, den |-> y.den]

HarmonicMean(x, y) == Div(2 * x.num * y.num, x.num * y.den + y.num * x.den)

F1Value(x, y) == IF IsZero(x) /\ IsZero(y) THEN Zero ELSE HarmonicMean(x, y)

compute_f1(P, G, M) ==
    LET pr == precision(P, G, M)
        rc == recall(P, G, M)
    IN  IF pr.raised \/ rc.raised
        THEN [raised |-> TRUE, p |-> Zero, r |-> Zero, f1 |-> Zero]
        ELSE [raised |-> FALSE, p |-> pr.value, r |-> rc.value,
              f1 |-> F1Value(pr.value, rc.value)]

EvalIdle ==
    /\ pre = <<>> /\ rec = <<>>
    /\ p = Zero /\ r = Zero /\ f1 = Zero /\ fpc = "idle"

EvalStart ==
    /\ pre = <<>> /\ rec = <<>>
    /\ p = Zero /\ r = Zero /\ f1 = Zero /\ fpc = "precision"

Precision ==
    /\ fpc = "precision"
    /\ LET res == precision(predictions, dev_labels, dev_mask)
       IN  /\ pre' = res.bits
           /\ p' = res.value
           /\ fpc' = IF res.raised THEN "IndexError"
                     ELSE IF res.value.den = 0 THEN "ZeroDivisionError"
                     ELSE "recall"
    /\ UNCHANGED <<rec, r, f1>>

Recall ==
    /\ fpc = "recall"
    /\ LET res == recall(predictions, dev_labels, dev_mask)
       IN  /\ rec' = res.bits
           /\ r' = res.value
           /\ fpc' = IF res.raised THEN "IndexError"
                     ELSE IF res.value.den = 0 THEN "ZeroDivisionError"
                     ELSE "f1"
    /\ UNCHANGED <<pre, p, f1>>

F1 ==
    /\ fpc = "f1"
    /\ f1' = F1Value(p, r)
    /\ fpc' = IF f1'.den = 0 THEN "ZeroDivisionError" ELSE "done"
    /\ UNCHANGED <<pre, rec, p, r>>

----------------------------------------------------------------------------
(* The evaluation step of the training loop.  A score is a whole number of  *)
(* 1e-5; the "%.4f" of eval_results.txt rounds it to a whole number of 1e-4. *)

Scores == {0, 33333, 50004, 66667, 100000}

NoFile == -1

Fmt4(x) == (x + 5) \div 10

Max(a, b) == IF a > b THEN a ELSE b

eval_step == Max(1, nbatches \div 5)

PromotesOrTies(s, m) == s >= m

Promotes(s, m) == s > m

TrainIdle ==
    /\ max_score = 0 /\ score = 0 /\ epoch = 0 /\ step = 0 /\ nbatches = 0
    /\ model_file = NoFile /\ eval_results = NoFile
    /\ save_model = FALSE /\ evals = 0
    /\ saves = 0 /\ writes = 0 /\ best = 0 /\ tpc = "idle"

Advance ==
    IF step + 1 = nbatches
    THEN epoch' = epoch + 1 /\ step' = 0
    ELSE epoch' = epoch /\ step' = step + 1

TrainStep ==
    /\ tpc = "loop"
    /\ epoch < NumEpochs
    /\ (step + 1) % eval_step # 0
    /\ Advance
    /\ UNCHANGED <<max_score, score, nbatches, model_file, eval_results,
                   save_model, evals, saves, writes, best, tpc>>

EvalStep ==
    /\ tpc = "loop"
    /\ epoch < NumEpochs
    /\ (step + 1) % eval_step = 0
    /\ \E s \in Scores :
        /\ score' = s
        /\ evals' = evals + 1
        /\ best' = Max(best, s)
        /\ save_model' = Promotes(s, max_score)
        /\ IF save_model'
           THEN /\ max_score' = s
                /\ model_file' = s
                /\ saves' = saves + 1
                /\ IF max_score' # 0
                   THEN eval_results' = Fmt4(max_score') /\ writes' = writes + 1
                   ELSE UNCHANGED <<eval_results, writes>>
           ELSE UNCHANGED <<max_score, model_file, saves, eval_results, writes>>
    /\ Advance
    /\ UNCHANGED <<nbatches, tpc>>

EvalRaises ==
    /\ tpc = "loop"
    /\ epoch < NumEpochs
    /\ (step + 1) % eval_step = 0
    /\ tpc' = "IndexError"
    /\ UNCHANGED <<max_score, score, epoch, step, nbatches, model_file,
                   eval_results, save_model, evals, saves, writes, best>>

TrainEnd ==
    /\ tpc = "loop"
    /\ ~(epoch < NumEpochs)
    /\ tpc' = "done"
    /\ UNCHANGED <<max_score, score, epoch, step, nbatches, model_file,
                   eval_results, save_model, evals, saves, writes, best>>

----------------------------------------------------------------------------
(* Specifications *)

ScenarioTags == {Arr(<<B_PER, I_PER, O, B_ORG, O>>)}

Init ==
    /\ predictions \in (UNION {Arrays(n, TagVocabulary) : n \in 0..MaxLen}) \cup ScenarioTags
    /\ dev_mask \in Arrays(ArrLen(predictions), {0, 1})
    /\ dev_labels = Arr(<<>>)
    /\ ScanStart
    /\ EvalIdle
    /\ TrainIdle

Next ==
    \/ Skip /\ UNCHANGED <<predictions, dev_labels, dev_mask, evalVars, trainVars>>
    \/ BeginPer /\ UNCHANGED <<predictions, dev_labels, dev_mask, evalVars, trainVars>>
    \/ BeginOrg /\ UNCHANGED <<predictions, dev_labels, dev_mask, evalVars, trainVars>>
    \/ BeginLoc /\ UNCHANGED <<predictions, dev_labels, dev_mask, evalVars, trainVars>>
    \/ SeekStep /\ UNCHANGED <<predictions, dev_labels, dev_mask, evalVars, trainVars>>
    \/ SeekIndexError /\ UNCHANGED <<predictions, dev_labels, dev_mask, evalVars, trainVars>>
    \/ EmitSpan /\ UNCHANGED <<predictions, dev_labels, dev_mask, evalVars, trainVars>>
    \/ Orphan /\ UNCHANGED <<predictions, dev_labels, dev_mask, evalVars, trainVars>>
    \/ Return /\ UNCHANGED <<predictions, dev_labels, dev_mask, evalVars, trainVars>>

Spec == Init /\ [][Next]_vars

InitEval ==
    /\ \E n \in 0..EvalLen :
        /\ predictions \in Arrays(n, EvalTags)
        /\ dev_labels \in Arrays(n, EvalTags)
        /\ dev_mask \in Arrays(n, {0, 1})
    /\ ScanIdle
    /\ EvalStart
    /\ TrainIdle

NextEval ==
    \/ Precision /\ UNCHANGED <<predictions, dev_labels, dev_mask, scanVars, trainVars>>
    \/ Recall /\ UNCHANGED <<predictions, dev_labels, dev_mask, scanVars, trainVars>>
    \/ F1 /\ UNCHANGED <<predictions, dev_labels, dev_mask, scanVars, trainVars>>

SpecEval == InitEval /\ [][NextEval]_vars

InitTrain ==
    /\ predictions = Arr(<<>>) /\ dev_labels = Arr(<<>>) /\ dev_mask = Arr(<<>>)
    /\ ScanIdle
    /\ EvalIdle
    /\ max_score = 0 /\ score = 0 /\ epoch = 0 /\ step = 0
    /\ nbatches \in 1..MaxBatches
    /\ model_file = NoFile /\ eval_results = NoFile
    /\ save_model = FALSE /\ evals = 0
    /\ saves = 0 /\ writes = 0 /\ best = 0 /\ tpc = "loop"

NextTrain ==
    \/ TrainStep /\ UNCHANGED <<predictions, dev_labels, dev_mask, scanVars, evalVars>>
    \/ EvalStep /\ UNCHANGED <<predictions, dev_labels, dev_mask, scanVars, evalVars>>
    \/ EvalRaises /\ UNCHANGED <<predictions, dev_labels, dev_mask, scanVars, evalVars>>
    \/ TrainEnd /\ UNCHANGED <<predictions, dev_labels, dev_mask, scanVars, evalVars>>

SpecTrain == InitTrain /\ [][NextTrain]_vars

----------------------------------------------------------------------------
(* Properties of find_all_tags (Spec) *)

AllOnes(M) == \A i \in DOMAIN M : M[i] = 1

Emitted(c) == {tags[c][k] : k \in 1..Len(tags[c])}

AllEmitted == UNION {Emitted(c) : c \in Categories}

(* The longest run of itag directly after position s that stays inside T. *)
MaxRun(T, s, itag) ==
    CHOOSE k \in 0..(ArrLen(T) - 1 - s) :
        /\ \A j \in 1..k : T[s + j] = itag
        /\ (s + k + 1 <= ArrLen(T) - 1) => T[s + k + 1] # itag

(* The span collection, once returned, is what the function computes as a value. *)
ScanAgreesWithValue ==
    /\ pc = "done" =>
        find_all_tags(predictions, dev_mask) = [raised |-> FALSE, tags |-> tags]
    /\ pc = "IndexError" => find_all_tags(predictions, dev_mask).raised

(* C1: find_all_tags completes without a fault on every tag sequence over   *)
(* 0..6 and every mask: the lookahead never reads T at an index >= N.       *)
C1_NoFault == pc # "IndexError"

(* C4: every emitted span (start, length) of category c has length equal to *)
(* the longest run of c's Inside tag after start that fits in the sequence, *)
(* whatever the mask bits after start are; tags [0,1,6,2,6] under an all-1  *)
(* mask give per = [(0,1)], org = [(3,0)], loc = [].                        *)
C4_MaximalRun ==
    /\ \A c \in Categories : \A sp \in Emitted(c) :
          sp[2] = MaxRun(predictions, sp[1], InsideTag(c))
    /\ (pc = "done" /\ predictions = Arr(<<0, 1, 6, 2, 6>>) /\ AllOnes(dev_mask)) =>
          tags = [per |-> << <<0, 1>> >>, org |-> << <<3, 0>> >>, loc |-> <<>>]

C4_Witness ==
    /\ pc = "done"
    /\ \E sp \in AllEmitted : sp[2] >= 1 /\ dev_mask[sp[1] + 1] = 0

(* C5: every emitted span of category c starts at an unmasked position that *)
(* holds c's Begin tag; so a masked Begin tag and an orphan Inside tag      *)
(* produce no span, and neither raises an error.                            *)
C5_StartsAtUnmaskedBegin ==
    /\ \A c \in Categories : \A sp \in Emitted(c) :
          /\ sp[1] \in DOMAIN predictions
          /\ dev_mask[sp[1]] = 1
          /\ predictions[sp[1]] = BeginTag(c)
    /\ pc = "IndexError" =>
          /\ dev_mask[pos] = 1
          /\ IsBegin(predictions[pos])

C5_Witness ==
    /\ pc = "done"
    /\ AllEmitted # {}
    /\ \E i \in DOMAIN predictions :
          /\ dev_mask[i] = 0
          /\ IsBegin(predictions[i])
          /\ i + 1 \in DOMAIN predictions
          /\ predictions[i + 1] = InsideTag(CatOf(predictions[i]))
          /\ dev_mask[i + 1] = 1

(* C9: no two emitted spans overlap, each category lists its spans in       *)
(* strictly increasing start order, and the scan cursor idx never moves     *)
(* back: each outer iteration moves it forward, to start + length + 1 when  *)
(* a span is emitted.                                                       *)
Extent(sp) == sp[1]..(sp[1] + sp[2])

C9_State ==
    /\ \A c, d \in Categories : \A i \in 1..Len(tags[c]) : \A j \in 1..Len(tags[d]) :
          (c # d \/ i # j) => Extent(tags[c][i]) \cap Extent(tags[d][j]) = {}
    /\ \A c \in Categories : \A i \in 1..Len(tags[c]) : \A j \in 1..Len(tags[c]) :
          i < j => tags[c][i][1] < tags[c][j][1]
    /\ \A sp \in AllEmitted : sp[1] + sp[2] < idx

C9_Step ==
    /\ idx' >= idx
    /\ (pc = "scan" /\ pc' = "scan") => idx' = idx + 1
    /\ (pc = "seek" /\ pc' = "scan") => (idx' = pos + length + 1 /\ idx' > idx)
    /\ (pc = "scan" /\ pc' = "seek") => idx' = idx
    /\ (pc = "seek" /\ pc' = "seek") => idx' = idx

C9_NoOverlap == [](C9_State) /\ [][C9_Step]_vars

C9_Witness ==
    /\ pc = "done"
    /\ Cardinality(AllEmitted) >= 2
    /\ \E sp \in AllEmitted : sp[2] >= 1

----------------------------------------------------------------------------
(* Properties of the scoring (SpecEval) *)

PredSpans == SpansInOrder(find_all_tags(predictions, dev_mask).tags)

GoldSpans == SpansInOrder(find_all_tags(dev_labels, dev_mask).tags)

IsOne(x) == x.den > 0 /\ x.num = x.den

SameValue(x, y) == x.num * y.den = y.num * x.den

AgreeWhereUnmasked(A, B, M) == \A i \in DOMAIN M : M[i] = 1 => A[i] = B[i]

(* C2: when prediction and gold both have a span at the same start but with *)
(* different lengths, precision does not count the predicted span and       *)
(* recall does not count the gold span; P=[0,6,6], G=[0,1,6], M=[1,1,1]     *)
(* give precision 0, recall 0, F1 0.                                        *)
C2_MismatchedBoundaryFails ==
    fpc = "done" =>
        /\ \A i \in 1..Len(PredSpans) : \A j \in 1..Len(GoldSpans) :
              (PredSpans[i][1] = GoldSpans[j][1] /\ PredSpans[i][2] # GoldSpans[j][2])
                  => (pre[i] = 0 /\ rec[j] = 0)
        /\ (/\ predictions = Arr(<<0, 6, 6>>)
            /\ dev_labels = Arr(<<0, 1, 6>>)
            /\ AllOnes(dev_mask))
              => (IsZero(p) /\ IsZero(r) /\ IsZero(f1))

(* C3: when predictions and gold agree at every unmasked position and a     *)
(* span is extracted, precision, recall and F1 are all 1.                   *)
C3_AgreementScoresOne ==
    (/\ fpc = "done"
     /\ AgreeWhereUnmasked(predictions, dev_labels, dev_mask)
     /\ Len(pre) + Len(rec) > 0)
        => (IsOne(p) /\ IsOne(r) /\ IsOne(f1))

(* C6: on completion precision, recall and F1 lie in [0,1]: the spans       *)
(* counted correct in a pass are at most the spans extracted in that pass,  *)
(* and F1 is at most 1.                                                     *)
InUnit(x) == x.den > 0 /\ 0 <= x.num /\ x.num <= x.den

C6_ScoresInUnitInterval ==
    /\ fpc \in {"recall", "f1", "done"} =>
          /\ Sum(pre) <= Len(PredSpans)
          /\ p.num = Sum(pre) /\ InUnit(p)
    /\ fpc \in {"f1", "done"} =>
          /\ Sum(rec) <= Len(GoldSpans)
          /\ r.num = Sum(rec) /\ InUnit(r)
    /\ fpc = "done" => InUnit(f1)

C6_Witness ==
    /\ fpc = "done"
    /\ 0 < p.num /\ p.num < p.den
    /\ 0 < f1.num /\ f1.num < f1.den

(* C7: scoring never divides by zero: precision is 0 when no span is        *)
(* extracted from the predictions, recall is 0 when none is extracted from  *)
(* gold, each whatever the other is, and F1 is 0 when both are 0; all-O     *)
(* predictions with all-O gold give 0, 0, 0.                                *)
AllO(T) == \A i \in DOMAIN T : T[i] = O

C7_NoDivisionByZero ==
    /\ fpc # "ZeroDivisionError"
    /\ (fpc \in {"recall", "f1", "done"} /\ Len(PredSpans) = 0) => p = Zero
    /\ (fpc \in {"f1", "done"} /\ Len(GoldSpans) = 0) => r = Zero
    /\ (fpc = "done" /\ IsZero(p) /\ IsZero(r)) => f1 = Zero
    /\ (AllO(predictions) /\ AllO(dev_labels)) =>
          /\ fpc \in {"precision", "recall", "f1", "done"}
          /\ fpc = "done" => (p = Zero /\ r = Zero /\ f1 = Zero)

C7_Witness ==
    /\ fpc = "done"
    /\ Len(PredSpans) = 0 /\ Len(GoldSpans) > 0
    /\ p = Zero /\ r = Zero /\ f1 = Zero

(* C8: for a fixed mask, inputs that agree at every unmasked position give  *)
(* the same span collections and the same precision, recall and F1.         *)
C8_MaskedPositionsIgnored ==
    fpc = "done" =>
        \A P2 \in Arrays(ArrLen(predictions), EvalTags) :
        \A G2 \in Arrays(ArrLen(predictions), EvalTags) :
            (/\ AgreeWhereUnmasked(P2, predictions, dev_mask)
             /\ AgreeWhereUnmasked(G2, dev_labels, dev_mask)
             /\ ~compute_f1(P2, G2, dev_mask).raised)
                => /\ find_all_tags(P2, dev_mask).tags = find_all_tags(predictions, dev_mask).tags
                   /\ find_all_tags(G2, dev_mask).tags = find_all_tags(dev_labels, dev_mask).tags
                   /\ SameValue(compute_f1(P2, G2, dev_mask).p, p)
                   /\ SameValue(compute_f1(P2, G2, dev_mask).r, r)
                   /\ SameValue(compute_f1(P2, G2, dev_mask).f1, f1)

(* The steps of compute_f1 arrive at the value of compute_f1. *)
EvalAgreesWithValue ==
    /\ fpc = "done" =>
        compute_f1(predictions, dev_labels, dev_mask) =
            [raised |-> FALSE, p |-> p, r |-> r, f1 |-> f1]
    /\ fpc = "IndexError" => compute_f1(predictions, dev_labels, dev_mask).raised

----------------------------------------------------------------------------
(* Properties of the training loop (SpecTrain) *)

(* C10: max_score starts at 0, never decreases and is the largest of 0 and  *)
(* the scores seen; an evaluation step writes the checkpoint and            *)
(* eval_results.txt exactly when its score is strictly above max_score as   *)
(* it was, so a tie (a score of 0 included) writes nothing; and             *)
(* eval_results.txt holds the best score so far, as "%.4f" prints it.       *)
C10_State ==
    /\ max_score >= 0
    /\ max_score = best
    /\ evals = 0 => (max_score = 0 /\ model_file = NoFile /\ eval_results = NoFile)
    /\ model_file # NoFile => model_file = best
    /\ eval_results # NoFile => eval_results = Fmt4(best)
    /\ (model_file = NoFile) = (eval_results = NoFile)
    /\ saves = writes

C10_Step ==
    /\ max_score' >= max_score
    /\ evals' = evals + 1 =>
          /\ (saves' = saves + 1) = (score' > max_score)
          /\ (writes' = writes + 1) = (score' > max_score)
          /\ score' > max_score =>
                (model_file' = score' /\ eval_results' = Fmt4(score'))
          /\ ~(score' > max_score) =>
                UNCHANGED <<max_score, model_file, eval_results, saves, writes>>
    /\ evals' = evals => UNCHANGED <<max_score, model_file, eval_results, saves, writes>>

C10_BestScoreCheckpoint == [](C10_State) /\ [][C10_Step]_vars

C10_Witness ==
    /\ evals >= 2
    /\ ~save_model
    /\ score = max_score
    /\ score > 0
    /\ saves = 1

====
